---- MODULE Spec2Model ----
\* Model of the Sokoban core in src/rs/src/main.rs: the two board layers, the
\* Game caches (player_index, goals_left), move_box / move_player, Game::new
\* and the input loop of restart()/main().
EXTENDS Integers, Sequences, FiniteSets, TLC

\* ------------------------------------------------------------------ bounds
\* Number of input bytes the loop in restart() reads before the model stops.
MaxMoves == 12
\* Largest number of boxes in the layouts that SpecBoards hands to Game::new.
MaxInitBoxes == 2
\* Largest number of Players in the layouts that SpecPlayers hands to Game::new.
MaxInitPlayers == 2

\* --------------------------------------------------------------- constants
BOARD_WIDTH == 8
BOARD_HEIGHT == 8

Cells == 0 .. (BOARD_WIDTH * BOARD_HEIGHT - 1)

Tile == {"None", "Wall", "Goal"}
Obj == {"None", "Player", "Box"}

\* The four offsets the input loop passes to move_player (keys w, s, a, d).
Offsets == {<<0, -1>>, <<0, 1>>, <<-1, 0>>, <<1, 0>>}

\* A Layer<T> is the array [T; 64]; the model indexes it 0..63 like the code.
LayerOf(seq) == [i \in Cells |-> seq[i + 1]]

TILE_LAYER_ring_gap ==
    LET o == "None" H == "Wall" X == "Goal" IN
    LayerOf(<<H,H,H,H,H,H,H,H,
              H,H,o,o,o,o,o,H,
              H,o,o,o,o,o,o,H,
              H,o,o,o,o,o,o,H,
              H,o,o,o,H,o,X,H,
              H,o,o,o,o,o,X,H,
              o,o,o,o,X,X,X,H,
              H,H,H,H,H,H,H,H>>)

TILE_LAYER ==
    LET o == "None" H == "Wall" X == "Goal" IN
    LayerOf(<<H,H,H,H,H,H,H,H,
              H,H,o,o,o,o,o,H,
              H,o,o,o,o,o,o,H,
              H,o,o,o,o,o,o,H,
              H,o,o,o,H,o,X,H,
              H,o,o,o,o,o,X,H,
              H,o,o,o,X,X,X,H,
              H,H,H,H,H,H,H,H>>)

OBJECT_LAYER ==
    LET o == "None" P == "Player" B == "Box" IN
    LayerOf(<<o,o,o,o,o,o,o,o,
              o,o,o,o,o,o,o,o,
              o,o,B,B,o,o,o,o,
              o,o,B,o,B,o,o,o,
              o,o,o,o,o,o,o,o,
              o,o,o,o,B,o,o,o,
              o,P,o,o,o,o,o,o,
              o,o,o,o,o,o,o,o>>)

\* ----------------------------------------------------------------- helpers
\* Marker for an index computation that panics.
OutOfRange == -1

\* Layer::index: x + y * BOARD_WIDTH, then the bounds check of the array
\* access.  A coordinate that the cast in offset() wrapped is kept here as the
\* negative isize it came from (it stands for that value + 2^64).  With
\* overflow checks (debug profile) the addition or the multiplication panics
\* for such a coordinate, or the access is out of bounds; without them
\* (release profile) the arithmetic wraps modulo 2^64, which is the signed sum,
\* and the access panics unless that sum is below 64.
index(coord, checks) ==
    LET i == coord[1] + coord[2] * BOARD_WIDTH IN
    IF checks /\ (coord[1] < 0 \/ coord[2] < 0) THEN OutOfRange
    ELSE IF i \in Cells THEN i
    ELSE OutOfRange

\* [T]::swap through Layer::swap, on two valid indices.
swap_copy(layer, i1, i2) == [layer EXCEPT ![i1] = layer[i2]]

swap(layer, i1, i2) == [layer EXCEPT ![i1] = layer[i2], ![i2] = layer[i1]]

\* offset: each component goes to isize, is added, and is cast back to usize.
\* A negative sum s becomes the usize s + 2^64; the model keeps s itself as
\* the representative of that wrapped value (see index and InGrid).
offset(p, o) == <<p[1] + o[1], p[2] + o[2]>>

\* A coordinate that is a cell of the grid (so no cast wrapped).
InGrid(coord) ==
    /\ 0 <= coord[1] /\ coord[1] < BOARD_WIDTH
    /\ 0 <= coord[2] /\ coord[2] < BOARD_HEIGHT

CoordOf(i) == <<i % BOARD_WIDTH, i \div BOARD_WIDTH>>

\* Result of find_player when the scan falls through to panic!.
NoPlayer == <<-1, -1>>

\* Board::find_player: y outer, x inner, first cell holding Player.
RECURSIVE find_player_from(_, _)
find_player_from(objects, i) ==
    IF i >= BOARD_WIDTH * BOARD_HEIGHT THEN NoPlayer
    ELSE IF objects[i] = "Player" THEN CoordOf(i)
    ELSE find_player_from(objects, i + 1)

RECURSIVE find_player_column_major_from(_, _)
find_player_column_major_from(objects, k) ==
    LET c == <<k \div BOARD_HEIGHT, k % BOARD_HEIGHT>> IN
    IF k >= BOARD_WIDTH * BOARD_HEIGHT THEN NoPlayer
    ELSE IF objects[index(c, TRUE)] = "Player" THEN c
    ELSE find_player_column_major_from(objects, k + 1)

find_player_column_major(objects) == find_player_column_major_from(objects, 0)

find_player(objects) == find_player_from(objects, 0)

\* Board::count_goals: the number of Goal tiles (the object layer is not read).
count_goals(tiles) == Cardinality({i \in Cells : tiles[i] = "Goal"})

\* Game::new: player_index first, then goals_left, then the board is moved in.
Game_new(tiles, objects) ==
    [tiles |-> tiles,
     objects |-> objects,
     player_index |-> find_player(objects),
     goals_left |-> count_goals(tiles),
     panicked |-> find_player(objects) = NoPlayer]

Panic(g) == [g EXCEPT !.panicked = TRUE]

\* --------------------------------------------------------------- operations
\* Game::move_box.  The result carries the game after the call, the returned
\* bool and the coordinate the call computed.  goals_left is a usize: taking
\* 1 from 0 panics with overflow checks and otherwise wraps to 2^64 - 1,
\* which the model writes as its representative UsizeMax = -1; adding 1 to
\* that value panics with overflow checks and otherwise wraps to 0.
UsizeMax == -1

move_box_else_if(g, source, off, checks) ==
    LET target == offset(source, off)
        ti == index(target, checks)
        si == index(source, checks)
    IN
    IF ti = OutOfRange
      THEN [game |-> Panic(g), ret |-> FALSE, target |-> target]
    ELSE IF g.tiles[ti] = "Wall" \/ g.objects[ti] # "None"
      THEN [game |-> g, ret |-> FALSE, target |-> target]
    ELSE
      LET g2 == IF g.tiles[si] = "Goal"
                  THEN [g EXCEPT !.goals_left = g.goals_left + 1]
                ELSE IF g.tiles[ti] = "Goal"
                  THEN [g EXCEPT !.goals_left = g.goals_left - 1]
                ELSE g
      IN [game |-> [g2 EXCEPT !.objects = swap(g.objects, ti, si)],
          ret |-> TRUE, target |-> target]

move_box_no_increment(g, source, off, checks) ==
    LET target == offset(source, off)
        ti == index(target, checks)
        si == index(source, checks)
    IN
    IF ti = OutOfRange
      THEN [game |-> Panic(g), ret |-> FALSE, target |-> target]
    ELSE IF g.tiles[ti] = "Wall" \/ g.objects[ti] # "None"
      THEN [game |-> g, ret |-> FALSE, target |-> target]
    ELSE
      LET g2 == IF g.tiles[ti] = "Goal"
                  THEN [g EXCEPT !.goals_left = g.goals_left - 1]
                  ELSE g
      IN [game |-> [g2 EXCEPT !.objects = swap(g.objects, ti, si)],
          ret |-> TRUE, target |-> target]

move_box_no_object_check(g, source, off, checks) ==
    LET target == offset(source, off)
        ti == index(target, checks)
        si == index(source, checks)
    IN
    IF ti = OutOfRange
      THEN [game |-> Panic(g), ret |-> FALSE, target |-> target]
    ELSE IF g.tiles[ti] = "Wall"
      THEN [game |-> g, ret |-> FALSE, target |-> target]
    ELSE
      LET g1 == IF g.tiles[si] = "Goal"
                  THEN [g EXCEPT !.goals_left = g.goals_left + 1]
                  ELSE g
          g2 == IF g.tiles[ti] = "Goal"
                  THEN [g1 EXCEPT !.goals_left = g1.goals_left - 1]
                  ELSE g1
      IN [game |-> [g2 EXCEPT !.objects = swap(g.objects, ti, si)],
          ret |-> TRUE, target |-> target]

move_box_assign(g, source, off, checks) ==
    LET target == offset(source, off)
        ti == index(target, checks)
        si == index(source, checks)
    IN
    IF ti = OutOfRange
      THEN [game |-> Panic(g), ret |-> FALSE, target |-> target]
    ELSE IF g.tiles[ti] = "Wall" \/ g.objects[ti] # "None"
      THEN [game |-> g, ret |-> FALSE, target |-> target]
    ELSE
      LET g1 == IF g.tiles[si] = "Goal"
                  THEN [g EXCEPT !.goals_left = g.goals_left + 1]
                  ELSE g
          g2 == IF g.tiles[ti] = "Goal"
                  THEN [g1 EXCEPT !.goals_left = g1.goals_left - 1]
                  ELSE g1
      IN [game |-> [g2 EXCEPT !.objects = [g.objects EXCEPT ![ti] = "Box"]],
          ret |-> TRUE, target |-> target]

move_box_swaps_tiles(g, source, off, checks) ==
    LET target == offset(source, off)
        ti == index(target, checks)
        si == index(source, checks)
    IN
    IF ti = OutOfRange
      THEN [game |-> Panic(g), ret |-> FALSE, target |-> target]
    ELSE IF g.tiles[ti] = "Wall" \/ g.objects[ti] # "None"
      THEN [game |-> g, ret |-> FALSE, target |-> target]
    ELSE
      LET g1 == IF g.tiles[si] = "Goal"
                  THEN [g EXCEPT !.goals_left = g.goals_left + 1]
                  ELSE g
          g2 == IF g.tiles[ti] = "Goal"
                  THEN [g1 EXCEPT !.goals_left = g1.goals_left - 1]
                  ELSE g1
      IN [game |-> [g2 EXCEPT !.tiles = swap(g.tiles, ti, si)],
          ret |-> TRUE, target |-> target]

move_box_no_wall_check(g, source, off, checks) ==
    LET target == offset(source, off)
        ti == index(target, checks)
        si == index(source, checks)
    IN
    IF ti = OutOfRange
      THEN [game |-> Panic(g), ret |-> FALSE, target |-> target]
    ELSE IF g.objects[ti] # "None"
      THEN [game |-> g, ret |-> FALSE, target |-> target]
    ELSE
      LET g1 == IF g.tiles[si] = "Goal"
                  THEN [g EXCEPT !.goals_left = g.goals_left + 1]
                  ELSE g
          g2 == IF g.tiles[ti] = "Goal"
                  THEN [g1 EXCEPT !.goals_left = g1.goals_left - 1]
                  ELSE g1
      IN [game |-> [g2 EXCEPT !.objects = swap(g.objects, ti, si)],
          ret |-> TRUE, target |-> target]

move_box_swapped_signs(g, source, off, checks) ==
    LET target == offset(source, off)
        ti == index(target, checks)
        si == index(source, checks)
    IN
    IF ti = OutOfRange
      THEN [game |-> Panic(g), ret |-> FALSE, target |-> target]
    ELSE IF g.tiles[ti] = "Wall" \/ g.objects[ti] # "None"
      THEN [game |-> g, ret |-> FALSE, target |-> target]
    ELSE
      LET g1 == IF g.tiles[si] = "Goal"
                  THEN [g EXCEPT !.goals_left = g.goals_left - 1]
                  ELSE g
          g2 == IF g.tiles[ti] = "Goal"
                  THEN [g1 EXCEPT !.goals_left = g1.goals_left + 1]
                  ELSE g1
      IN [game |-> [g2 EXCEPT !.objects = swap(g.objects, ti, si)],
          ret |-> TRUE, target |-> target]

move_box(g, source, off, checks) ==
    LET target == offset(source, off)
        ti == index(target, checks)
        si == index(source, checks)
    IN
    IF ti = OutOfRange
      THEN [game |-> Panic(g), ret |-> FALSE, target |-> target]
    ELSE IF g.tiles[ti] = "Wall" \/ g.objects[ti] # "None"
      THEN [game |-> g, ret |-> FALSE, target |-> target]
    ELSE
      LET overflow == g.tiles[si] = "Goal" /\ g.goals_left = UsizeMax
          g1 == IF g.tiles[si] = "Goal"
                  THEN [g EXCEPT !.goals_left = g.goals_left + 1]
                  ELSE g
          underflow == g.tiles[ti] = "Goal" /\ g1.goals_left = 0
          g2 == IF g.tiles[ti] = "Goal"
                  THEN [g1 EXCEPT !.goals_left = g1.goals_left - 1]
                  ELSE g1
      IN IF overflow /\ checks
           THEN [game |-> Panic(g), ret |-> FALSE, target |-> target]
         ELSE IF underflow /\ checks
           THEN [game |-> Panic(g1), ret |-> FALSE, target |-> target]
           ELSE [game |-> [g2 EXCEPT !.objects = swap(g.objects, ti, si)],
                 ret |-> TRUE, target |-> target]

\* Game::move_player.  The result carries the game after the call, whether
\* move_box was invoked, what it returned, and the coordinates computed.
\* The && short-circuits: move_box runs only when the target holds a Box, and
\* it runs before the Wall test of the target tile.
move_player_no_index_update(g, off, checks) ==
    LET target == offset(g.player_index, off)
        ti == index(target, checks)
        pi == index(g.player_index, checks)
    IN
    IF ti = OutOfRange
      THEN [game |-> Panic(g), box_called |-> FALSE, box_moved |-> FALSE,
            coords |-> <<target>>]
    ELSE
      LET is_box == g.objects[ti] = "Box"
          mb == move_box(g, target, off, checks)
          g1 == IF is_box THEN mb.game ELSE g
          couldnt_push_box == is_box /\ ~mb.ret
          coords == IF is_box THEN <<target, mb.target>> ELSE <<target>>
      IN
      IF g1.panicked \/ g1.tiles[ti] = "Wall" \/ couldnt_push_box
        THEN [game |-> g1, box_called |-> is_box,
              box_moved |-> is_box /\ mb.ret, coords |-> coords]
        ELSE [game |-> [g1 EXCEPT !.objects = swap(g1.objects, ti, pi)],
              box_called |-> is_box, box_moved |-> is_box /\ mb.ret,
              coords |-> coords]

move_player_no_wall_test(g, off, checks) ==
    LET target == offset(g.player_index, off)
        ti == index(target, checks)
        pi == index(g.player_index, checks)
    IN
    IF ti = OutOfRange
      THEN [game |-> Panic(g), box_called |-> FALSE, box_moved |-> FALSE,
            coords |-> <<target>>]
    ELSE
      LET is_box == g.objects[ti] = "Box"
          mb == move_box(g, target, off, checks)
          g1 == IF is_box THEN mb.game ELSE g
          couldnt_push_box == is_box /\ ~mb.ret
          coords == IF is_box THEN <<target, mb.target>> ELSE <<target>>
      IN
      IF g1.panicked \/ couldnt_push_box
        THEN [game |-> g1, box_called |-> is_box,
              box_moved |-> is_box /\ mb.ret, coords |-> coords]
        ELSE [game |-> [g1 EXCEPT !.objects = swap(g1.objects, ti, pi),
                                  !.player_index = target],
              box_called |-> is_box, box_moved |-> is_box /\ mb.ret,
              coords |-> coords]

move_player_counts_player(g, off, checks) ==
    LET target == offset(g.player_index, off)
        ti == index(target, checks)
        pi == index(g.player_index, checks)
    IN
    IF ti = OutOfRange
      THEN [game |-> Panic(g), box_called |-> FALSE, box_moved |-> FALSE,
            coords |-> <<target>>]
    ELSE
      LET is_box == g.objects[ti] = "Box"
          mb == move_box(g, target, off, checks)
          g1 == IF is_box THEN mb.game ELSE g
          couldnt_push_box == is_box /\ ~mb.ret
          coords == IF is_box THEN <<target, mb.target>> ELSE <<target>>
      IN
      IF g1.panicked \/ g1.tiles[ti] = "Wall" \/ couldnt_push_box
        THEN [game |-> g1, box_called |-> is_box,
              box_moved |-> is_box /\ mb.ret, coords |-> coords]
        ELSE [game |-> [g1 EXCEPT !.objects = swap(g1.objects, ti, pi),
                                  !.player_index = target,
                                  !.goals_left =
                                      IF g1.tiles[ti] = "Goal"
                                        THEN g1.goals_left - 1
                                        ELSE g1.goals_left],
              box_called |-> is_box, box_moved |-> is_box /\ mb.ret,
              coords |-> coords]

move_player(g, off, checks) ==
    LET target == offset(g.player_index, off)
        ti == index(target, checks)
        pi == index(g.player_index, checks)
    IN
    IF ti = OutOfRange
      THEN [game |-> Panic(g), box_called |-> FALSE, box_moved |-> FALSE,
            coords |-> <<target>>]
    ELSE
      LET is_box == g.objects[ti] = "Box"
          mb == move_box(g, target, off, checks)
          g1 == IF is_box THEN mb.game ELSE g
          couldnt_push_box == is_box /\ ~mb.ret
          coords == IF is_box THEN <<target, mb.target>> ELSE <<target>>
      IN
      IF g1.panicked \/ g1.tiles[ti] = "Wall" \/ couldnt_push_box
        THEN [game |-> g1, box_called |-> is_box,
              box_moved |-> is_box /\ mb.ret, coords |-> coords]
        ELSE [game |-> [g1 EXCEPT !.objects = swap(g1.objects, ti, pi),
                                  !.player_index = target],
              box_called |-> is_box, box_moved |-> is_box /\ mb.ret,
              coords |-> coords]

\* ------------------------------------------------------------------- state
VARIABLES
    tiles,         \* game.board.tiles
    objects,       \* game.board.objects
    player_index,  \* game.player_index
    goals_left,    \* game.goals_left
    panicked,      \* the process has aborted in a panic
    overflow_checks, \* the build panics on integer overflow (debug profile)
    running,       \* the loop of main() has not been left by 'q'
    moves,         \* input bytes read so far
    last           \* the last input handled: what it was and the game before it

vars == <<tiles, objects, player_index, goals_left, panicked, overflow_checks,
          running, moves, last>>

\* The Game value held by the local `game` of restart().
Game ==
    [tiles |-> tiles, objects |-> objects, player_index |-> player_index,
     goals_left |-> goals_left, panicked |-> panicked]

SetGame(g) ==
    /\ tiles' = g.tiles
    /\ objects' = g.objects
    /\ player_index' = g.player_index
    /\ goals_left' = g.goals_left
    /\ panicked' = g.panicked

\* State after main() enters restart() and Game::new returns.
InitWith(tl, ol) ==
    LET g == Game_new(tl, ol) IN
    /\ tiles = g.tiles
    /\ objects = g.objects
    /\ player_index = g.player_index
    /\ goals_left = g.goals_left
    /\ panicked = g.panicked
    /\ overflow_checks \in BOOLEAN
    /\ running = TRUE
    /\ moves = 0
    /\ last = [kind |-> "new", off |-> <<0, 0>>, pre |-> g,
               box_called |-> FALSE, box_moved |-> FALSE, coords |-> <<>>]

Init == InitWith(TILE_LAYER, OBJECT_LAYER)

\* Other boards for Game::new: the tile layer of the puzzle, the Player on
\* its cell of OBJECT_LAYER and up to MaxInitBoxes boxes on cells of BoxCells
\* (the five Goal cells and three floor cells).
BoxCells == {38, 46, 52, 53, 54, 45, 41, 27}

Layout(boxes) ==
    [i \in Cells |-> IF i \in boxes THEN "Box"
                     ELSE IF OBJECT_LAYER[i] = "Player" THEN "Player"
                     ELSE "None"]

InitBoards ==
    \E boxes \in SUBSET BoxCells :
        /\ Cardinality(boxes) <= MaxInitBoxes
        /\ InitWith(TILE_LAYER, Layout(boxes))

\* The match on the input byte: the offset passed to move_player.
KeyOffset(ch) ==
    CASE ch = "w" -> <<0, -1>>
      [] ch = "s" -> <<0, 1>>
      [] ch = "a" -> <<-1, 0>>
      [] ch = "d" -> <<1, 0>>

\* One input: nine keys that push a box onto a Goal, along the Goal column
\* and off it again, then the keys that bring all five boxes onto Goals.
RaisePrefix == <<"w","d","d","d","d","s","d","w","w">>

Solution ==
    RaisePrefix \o
    <<"a","w","w","d","s","s","s","w","w","w","w","a","a","a",
      "s","s","s","a","a","w","w","d","s","s","s","a","s","d",
      "d","a","w","d","d","d","a","a","w","w","d","a","a","w",
      "d","d","d","w","d","s","s","w","a","s","s","s">>

\* Boards for find_player: the tile layer and the boxes of the puzzle, with
\* at most MaxInitPlayers Players, each on one of the cells of PlayerCands.
PlayerCands == {49, 21, 41, 14}

LayoutPlayers(players) ==
    [i \in Cells |-> IF i \in players THEN "Player"
                     ELSE IF OBJECT_LAYER[i] = "Box" THEN "Box"
                     ELSE "None"]

InitPlayers ==
    \E players \in SUBSET PlayerCands :
        /\ Cardinality(players) <= MaxInitPlayers
        /\ InitWith(TILE_LAYER, LayoutPlayers(players))

CanRead == running /\ ~panicked /\ moves < MaxMoves

\* Input 'w', 's', 'a' or 'd': game.move_player(off).
MovePlayer(off) ==
    /\ CanRead
    /\ LET r == move_player(Game, off, overflow_checks) IN
       /\ SetGame(r.game)
       /\ last' = [kind |-> "move", off |-> off, pre |-> Game,
                   box_called |-> r.box_called, box_moved |-> r.box_moved,
                   coords |-> r.coords]
    /\ moves' = moves + 1
    /\ UNCHANGED <<running, overflow_checks>>

Restart_no_clone ==
    /\ CanRead
    /\ SetGame(Game_new(tiles, objects))
    /\ last' = [kind |-> "restart", off |-> <<0, 0>>, pre |-> Game,
                box_called |-> FALSE, box_moved |-> FALSE, coords |-> <<>>]
    /\ moves' = moves + 1
    /\ UNCHANGED <<running, overflow_checks>>

\* Input 'r': restart() returns true and main() calls it again, which builds
\* a new Game from clones of the two statics.
Restart ==
    /\ CanRead
    /\ SetGame(Game_new(TILE_LAYER, OBJECT_LAYER))
    /\ last' = [kind |-> "restart", off |-> <<0, 0>>, pre |-> Game,
                box_called |-> FALSE, box_moved |-> FALSE, coords |-> <<>>]
    /\ moves' = moves + 1
    /\ UNCHANGED <<running, overflow_checks>>

\* Input 'q': restart() returns false and main() ends.
Quit ==
    /\ CanRead
    /\ running' = FALSE
    /\ last' = [kind |-> "quit", off |-> <<0, 0>>, pre |-> Game,
                box_called |-> FALSE, box_moved |-> FALSE, coords |-> <<>>]
    /\ moves' = moves + 1
    /\ UNCHANGED <<tiles, objects, player_index, goals_left, panicked,
                   overflow_checks>>

\* Any other input byte: the match arm `_ => ()`.
OtherKey ==
    /\ CanRead
    /\ last' = [kind |-> "other", off |-> <<0, 0>>, pre |-> Game,
                box_called |-> FALSE, box_moved |-> FALSE, coords |-> <<>>]
    /\ moves' = moves + 1
    /\ UNCHANGED <<tiles, objects, player_index, goals_left, panicked,
                   overflow_checks, running>>

\* The read yields no byte: at end of input the first unwrap() panics, on a
\* read error the second; the process aborts.
ReadFails ==
    /\ running /\ ~panicked
    /\ panicked' = TRUE
    /\ last' = [kind |-> "eof", off |-> <<0, 0>>, pre |-> Game,
                box_called |-> FALSE, box_moved |-> FALSE, coords |-> <<>>]
    /\ UNCHANGED <<tiles, objects, player_index, goals_left, overflow_checks,
                   running, moves>>

\* game.move_player(off) for one input byte, with no limit on the byte count.
DoMove(off) ==
    /\ running /\ ~panicked
    /\ LET r == move_player(Game, off, overflow_checks) IN
       /\ SetGame(r.game)
       /\ last' = [kind |-> "move", off |-> off, pre |-> Game,
                   box_called |-> r.box_called, box_moved |-> r.box_moved,
                   coords |-> r.coords]
    /\ moves' = moves + 1
    /\ UNCHANGED <<running, overflow_checks>>

\* The next key of Solution is read.
ReplayKey ==
    /\ moves < Len(Solution)
    /\ DoMove(KeyOffset(Solution[moves + 1]))

\* After Solution, up to MaxMoves further move keys of any kind are read.
PlayOn(off) ==
    /\ moves >= Len(Solution)
    /\ moves < Len(Solution) + MaxMoves
    /\ DoMove(off)

\* Input 'q' after Solution (and at most MaxMoves further keys).
QuitOn ==
    /\ running /\ ~panicked
    /\ moves >= Len(Solution)
    /\ moves < Len(Solution) + MaxMoves
    /\ running' = FALSE
    /\ last' = [kind |-> "quit", off |-> <<0, 0>>, pre |-> Game,
                box_called |-> FALSE, box_moved |-> FALSE, coords |-> <<>>]
    /\ moves' = moves + 1
    /\ UNCHANGED <<tiles, objects, player_index, goals_left, panicked,
                   overflow_checks>>

\* The input ends after Solution (and any further keys).
EndOn ==
    /\ moves >= Len(Solution)
    /\ ReadFails

NextSolve ==
    \/ ReplayKey
    \/ \E off \in Offsets : PlayOn(off)
    \/ QuitOn
    \/ EndOn

Next ==
    \/ \E off \in Offsets : MovePlayer(off)
    \/ Restart
    \/ Quit
    \/ OtherKey
    \/ ReadFails

Spec == Init /\ [][Next]_vars

\* The same program started on each board of InitBoards.
SpecBoards == InitBoards /\ [][Next]_vars

\* The same program started on each board of InitPlayers.
SpecPlayers == InitPlayers /\ [][Next]_vars

\* The program fed Solution and then any move keys.
SpecSolve == Init /\ [][NextSolve]_vars

\* ------------------------------------------------------------------ claims
\* The count the goals_left cache stands for, taken from the board alone:
\* cells whose tile is Goal and whose object is not Box.
CountUncovered(tl, ol) ==
    Cardinality({i \in Cells : tl[i] = "Goal" /\ ol[i] # "Box"})

PlayerCells(ol) == {i \in Cells : ol[i] = "Player"}

\* Cells of the last move_player call: P the player before the call, B the
\* cell it stepped towards, T the cell one further in the same direction.
LastIsMove == last.kind = "move"
LastP == last.pre.player_index
LastB == offset(LastP, last.off)
LastT == offset(LastB, last.off)
IdxP == index(LastP, TRUE)
IdxB == index(LastB, TRUE)
IdxT == index(LastT, TRUE)

\* The last call was a push attempt (a Box stood on B).
LastAtBox == LastIsMove /\ InGrid(LastB) /\ last.pre.objects[IdxB] = "Box"

GameUnchanged ==
    /\ objects = last.pre.objects
    /\ player_index = last.pre.player_index
    /\ goals_left = last.pre.goals_left

\* C1: from the hardcoded layout, after any sequence of inputs, goals_left
\* equals the number of Goal cells without a Box, recounted from the board.
C1_GoalsLeftIsLiveCount ==
    ~panicked => goals_left = CountUncovered(tiles, objects)

\* A box has been pushed onto a Goal and later one off a Goal again.
C1_Witness ==
    /\ LastIsMove /\ last.box_moved
    /\ last.pre.tiles[IdxB] = "Goal" /\ tiles[IdxT] # "Goal"
    /\ goals_left = CountUncovered(tiles, objects)
    /\ goals_left = 5

\* C2: from the hardcoded layout, exactly one cell of the object layer holds
\* Player after any sequence of move_player calls.
C2_ExactlyOnePlayer == Cardinality(PlayerCells(objects)) = 1

\* The player has stepped to another cell and is the only Player.
C2_Witness ==
    /\ LastIsMove /\ player_index # LastP
    /\ PlayerCells(objects) = {IdxB}

\* C3: after Game::new and after every move_player call, player_index is the
\* coordinate of the only cell whose object is Player.
C3_PlayerIndexIsPlayerCell ==
    ~panicked =>
        /\ InGrid(player_index)
        /\ objects[index(player_index, TRUE)] = "Player"
        /\ \A i \in Cells : objects[i] = "Player" => CoordOf(i) = player_index

\* The player pushed a box, so both swaps ran and the cache was updated.
C3_Witness ==
    /\ LastIsMove /\ last.box_moved
    /\ player_index = LastB
    /\ objects[IdxB] = "Player" /\ objects[IdxP] = "None"

\* C4: Game::new sets goals_left to the number of Goal cells whose object is
\* not Box, on any board; with k boxes on Goal tiles that is Goals - k.
C4_NewCountsUncoveredGoals ==
    last.kind = "new" => goals_left = CountUncovered(tiles, objects)

\* C5: a move_player call towards a Box whose own destination is a Wall tile
\* or holds an object changes nothing.
C5_BlockedPushNoChange ==
    (LastAtBox /\ InGrid(LastT)
       /\ (last.pre.tiles[IdxT] = "Wall" \/ last.pre.objects[IdxT] # "None"))
    => GameUnchanged

\* A push of a box against another box was attempted.
C5_Witness ==
    /\ LastAtBox /\ last.pre.objects[IdxT] = "Box"
    /\ last.box_called /\ ~last.box_moved
    /\ GameUnchanged

\* C6: a move_player call towards a Wall cell that holds no Box changes
\* nothing and does not invoke move_box.
C6_WallNoChange ==
    (LastIsMove /\ InGrid(LastB)
       /\ last.pre.tiles[IdxB] = "Wall" /\ last.pre.objects[IdxB] # "Box")
    => (GameUnchanged /\ ~last.box_called)

\* The player walked against a Wall after having moved away from its start.
C6_Witness ==
    /\ LastIsMove /\ last.pre.tiles[IdxB] = "Wall"
    /\ last.pre.objects[IdxB] = "None"
    /\ player_index = LastP /\ player_index # find_player(OBJECT_LAYER)

\* Change of goals_left that a push from a tile s to a tile t must cause.
GoalDelta(s, t) ==
    IF s = "Goal" /\ t # "Goal" THEN 1
    ELSE IF s # "Goal" /\ t = "Goal" THEN -1
    ELSE 0

\* C7: a successful push from S to T changes goals_left by +1 (Goal to
\* non-Goal), -1 (non-Goal to Goal) or 0 (both or neither Goal); a call
\* without a successful push leaves goals_left alone.
C7_GoalsLeftDelta ==
    /\ LastIsMove /\ last.box_moved =>
         goals_left - last.pre.goals_left
           = GoalDelta(last.pre.tiles[IdxB], last.pre.tiles[IdxT])
    /\ (last.kind \in {"move", "other", "quit", "eof"} /\ ~last.box_moved) =>
         goals_left = last.pre.goals_left

\* A box was pushed from one Goal cell to another Goal cell.
C7_Witness ==
    /\ LastIsMove /\ last.box_moved
    /\ last.pre.tiles[IdxB] = "Goal" /\ last.pre.tiles[IdxT] = "Goal"
    /\ goals_left = last.pre.goals_left

\* C8: with a Box on B = P + off and a non-Wall cell without object on
\* B + off, move_player(off) leaves Player on B, Box on B + off, nothing on P,
\* player_index = B, and every other cell as it was.
C8_PushMovesOneBoxOneCell ==
    (LastAtBox /\ InGrid(LastT)
       /\ last.pre.tiles[IdxT] # "Wall" /\ last.pre.objects[IdxT] = "None")
    => /\ objects[IdxB] = "Player"
       /\ objects[IdxT] = "Box"
       /\ objects[IdxP] = "None"
       /\ player_index = LastB
       /\ \A i \in Cells \ {IdxP, IdxB, IdxT} : objects[i] = last.pre.objects[i]

\* A push onto a Goal cell succeeded.
C8_Witness ==
    /\ LastAtBox /\ last.box_moved
    /\ last.pre.objects[IdxT] = "None" /\ tiles[IdxT] = "Goal"
    /\ objects[IdxT] = "Box" /\ player_index = LastB

\* C9: from the hardcoded layout, for each of the four offsets, the coordinate
\* move_player computes and, when it invokes move_box, the coordinate move_box
\* computes are cells of the 8x8 grid; so were those of the last call.
C9_CoordinatesInGrid ==
    /\ \A k \in 1 .. Len(last.coords) : InGrid(last.coords[k])
    /\ ~panicked =>
         \A off \in Offsets :
            LET target == offset(player_index, off) IN
            /\ InGrid(target)
            /\ objects[index(target, TRUE)] = "Box" =>
                 InGrid(offset(target, off))

\* move_box computed a coordinate on the outer ring of the board.
C9_Witness ==
    /\ LastIsMove /\ last.box_called /\ Len(last.coords) = 2
    /\ last.coords[2][1] = BOARD_WIDTH - 1

\* C10: no input changes the tile layer; every tile is the one of the layout
\* given to Game::new.
C10_TilesNeverChange ==
    /\ tiles = TILE_LAYER
    /\ tiles = last.pre.tiles

\* A box has been pushed between cells of different tiles.
C10_Witness ==
    /\ LastIsMove /\ last.box_moved
    /\ tiles[IdxB] # tiles[IdxT]
    /\ tiles = TILE_LAYER

BoxCellsOf(ol) == {i \in Cells : ol[i] = "Box"}

\* C11: from the hardcoded layout, a move_player call either changes nothing
\* or moves the player one cell in the direction of the offset; no call moves
\* a box or adjusts goals_left while the player stays where it was.
C11_MoveAppliesOrNoOp ==
    LastIsMove =>
        \/ GameUnchanged
        \/ /\ player_index = LastB
           /\ objects[IdxB] = "Player"
           /\ objects[IdxP] = "None"

\* A box was pushed next to the Wall cell inside the board and the player
\* followed it.
C11_Witness ==
    /\ LastIsMove /\ last.box_moved
    /\ player_index = LastB
    /\ \E off \in Offsets :
          LET w == offset(LastT, off) IN
          /\ InGrid(w) /\ tiles[index(w, TRUE)] = "Wall"
          /\ InGrid(offset(w, off)) /\ InGrid(offset(offset(w, off), off))

\* C12: a move_player call towards a non-Wall cell that holds no object moves
\* the player there, empties the previous player cell, and leaves goals_left
\* and every box where they were.
C12_PlainStep ==
    (LastIsMove /\ InGrid(LastB)
       /\ last.pre.tiles[IdxB] # "Wall" /\ last.pre.objects[IdxB] = "None")
    => /\ player_index = LastB
       /\ objects[IdxB] = "Player"
       /\ objects[IdxP] = "None"
       /\ goals_left = last.pre.goals_left
       /\ BoxCellsOf(objects) = BoxCellsOf(last.pre.objects)
       /\ ~last.box_called

\* The player stepped onto a Goal tile that holds no box.
C12_Witness ==
    /\ LastIsMove /\ last.pre.objects[IdxB] = "None"
    /\ tiles[IdxB] = "Goal" /\ player_index = LastB
    /\ goals_left = last.pre.goals_left

\* C13: from the hardcoded layout, no Wall-tiled cell ever holds an object.
C13_NoObjectOnWall ==
    \A i \in Cells : tiles[i] = "Wall" => objects[i] = "None"

\* Player and a box both stand next to Wall cells after a push.
C13_Witness ==
    /\ LastIsMove /\ last.box_moved
    /\ \E off \in Offsets : tiles[index(offset(LastT, off), TRUE)] = "Wall"
    /\ \E off \in Offsets : tiles[index(offset(player_index, off), TRUE)] = "Wall"
    /\ \A i \in Cells : tiles[i] = "Wall" => objects[i] = "None"

\* C14: after any sequence of moves, input 'r' yields the initial game: the
\* layers of the two statics, player_index (1,6) and goals_left 5.
C14_RestartIsFresh ==
    last.kind = "restart" =>
        /\ objects = OBJECT_LAYER
        /\ tiles = TILE_LAYER
        /\ player_index = <<1, 6>>
        /\ goals_left = 5
        /\ ~panicked

\* A restart of a game in which a box had been pushed onto a Goal.
C14_Witness ==
    /\ last.kind = "restart"
    /\ last.pre.goals_left < 5
    /\ last.pre.objects # OBJECT_LAYER
    /\ objects = OBJECT_LAYER /\ goals_left = 5

\* C15: Game::new on a layout without a Player panics in find_player and
\* yields no Game; on a layout with a Player, player_index is the first Player
\* cell in the scan with y ascending, then x ascending.
C15_NewFindsFirstPlayer ==
    last.kind = "new" =>
        IF PlayerCells(objects) = {}
          THEN panicked
          ELSE /\ ~panicked
               /\ InGrid(player_index)
               /\ objects[index(player_index, TRUE)] = "Player"
               /\ \A i \in PlayerCells(objects) :
                     \/ CoordOf(i)[2] > player_index[2]
                     \/ /\ CoordOf(i)[2] = player_index[2]
                        /\ CoordOf(i)[1] >= player_index[1]

\* Game::new on a layout with two Players, where the one in the upper row is
\* the one further to the right.
C15_Witness ==
    /\ last.kind = "new" /\ ~panicked
    /\ \E i \in PlayerCells(objects) :
          /\ CoordOf(i)[2] > player_index[2]
          /\ CoordOf(i)[1] < player_index[1]

\* C17: from the hardcoded layout, the board holds 5 boxes in every reachable
\* state; a call moves at most one of them and adds or removes none.
C17_FiveBoxes ==
    /\ Cardinality(BoxCellsOf(objects)) = 5
    /\ LastIsMove =>
         /\ Cardinality(BoxCellsOf(objects) \ BoxCellsOf(last.pre.objects)) <= 1
         /\ Cardinality(BoxCellsOf(last.pre.objects) \ BoxCellsOf(objects)) <= 1

\* Two of the five boxes have left their cells of OBJECT_LAYER.
C17_Witness ==
    /\ LastIsMove /\ last.box_moved
    /\ Cardinality(BoxCellsOf(objects) \ BoxCellsOf(OBJECT_LAYER)) >= 2
    /\ Cardinality(BoxCellsOf(objects)) = 5

\* C16: goals_left never underflows: no decrement in move_box starts from 0,
\* and goals_left stays within 0 .. 5 (the number of Goal tiles), on the way
\* to the state with goals_left = 0 and in the play after it.
C16_GoalsLeftInRange ==
    /\ LastIsMove => ~panicked
    /\ 0 <= goals_left /\ goals_left <= count_goals(TILE_LAYER)
    /\ count_goals(TILE_LAYER) = 5
    /\ (LastIsMove /\ last.box_moved /\ last.pre.tiles[IdxT] = "Goal") =>
          last.pre.goals_left
            + (IF last.pre.tiles[IdxB] = "Goal" THEN 1 ELSE 0) >= 1

\* The decrement from 1 to 0 has been executed.
C16_Witness ==
    /\ LastIsMove /\ last.box_moved
    /\ last.pre.goals_left = 1 /\ goals_left = 0

\* C18: the hardcoded puzzle can be won: the inputs of Solution, fed to
\* move_player from the initial layout, end with goals_left = 0 and a Box on
\* each of the five Goal tiles.
C18_SolutionWins ==
    moves = Len(Solution) =>
        /\ goals_left = 0
        /\ \A i \in Cells : tiles[i] = "Goal" => objects[i] = "Box"

\* The last key of Solution has been handled and every Goal is covered.
C18_Witness ==
    /\ moves = Len(Solution)
    /\ CountUncovered(tiles, objects) = 0
    /\ Cardinality(BoxCellsOf(objects)) = 5

\* C19: once goals_left is 0, every further move_player call leaves it 0 and
\* moves no box; before that, goals_left is not monotone: the last key of
\* RaisePrefix pushes a box off a Goal and raises it.
C19_WinIsStable ==
    /\ (LastIsMove /\ last.pre.goals_left = 0) =>
          /\ goals_left = 0
          /\ BoxCellsOf(objects) = BoxCellsOf(last.pre.objects)
          /\ ~last.box_moved
    /\ moves = Len(RaisePrefix) =>
          /\ last.box_moved
          /\ goals_left = last.pre.goals_left + 1
          /\ goals_left > 0

\* After the win the player pushed against a box on a Goal, in vain.
C19_Witness ==
    /\ LastIsMove /\ last.pre.goals_left = 0
    /\ last.box_called /\ ~last.box_moved
    /\ last.pre.tiles[IdxB] = "Goal"
    /\ goals_left = 0
====
